---- MODULE Spec2Model ----
(***************************************************************************)
(* Smart attendance system: the attendance ledger of firebase.py           *)
(* (find_current_course, mark_attendance over the Firebase Realtime        *)
(* Database nodes students / courses / attendance) and the recognition     *)
(* pipeline of face_recognition.py (gallery match, mark, LED signal).      *)
(*                                                                         *)
(* Time.  A datetime is a record [date, tod]: date is a day number (day 0  *)
(* is a Monday) and tod the second of that day.  Datetimes are compared by *)
(* their absolute second, as Python compares naive datetimes.  A schedule  *)
(* time is the text "HH:MM", written here as the pair <<HH, MM>>.          *)
(***************************************************************************)
EXTENDS Integers, Sequences, FiniteSets, TLC

VARIABLES
    students,    \* node 'students': sequence (push order) of student records
    courses,     \* node 'courses': sequence (push order) of course records
    attendance,  \* node 'attendance': sequence (push order) of attendance records
    call,        \* the last mark_attendance call: its result and the line it printed
    probe,       \* the last find_current_course call: its arguments and its result
    inv,         \* per process: the mark_attendance invocation in progress
    known_face_encodings,  \* the gallery: encodings in load order
    known_face_names,      \* the gallery: the label of each encoding
    matched,     \* the last match step: the face encoding and the name it gave
    serial_connection,  \* self.serial_connection: "None", "open" or "closed"
    pc,          \* where recognize_faces stands: "idle" outside it
    faces,       \* the face encodings of the frame still to be processed
    name,        \* the name given to the face being processed
    signals,     \* the number of calls of trigger_led_blink
    blink,       \* what the last trigger_led_blink returned
    annotated,   \* the names drawn on the frame so far
    frame,       \* the face encodings of the frame recognize_faces was given
    loop,        \* where run() stands: "off" outside it
    stop,        \* the stop signal run() has observed: None before any
    replay,      \* one frame processed twice, in two orders of its faces
    boot,        \* where the start of the program stands, from __main__ to run()
    firebase_ok, \* whether setup_firebase can open the store (it returns None if not)
    dir,         \* known_faces_dir: whether os.listdir succeeds, and the files it lists
    todo         \* the files load_known_faces has still to visit

ledgerVars == <<students, courses, attendance, call, probe, inv>>
galleryVars == <<known_face_encodings, known_face_names>>
appVars == <<serial_connection, pc, faces, name, signals, blink, annotated, frame>>
startVars == <<boot, firebase_ok, dir, todo>>
runVars == <<loop, stop, replay>>
vars == <<ledgerVars, galleryVars, matched, appVars, startVars, runVars>>

----------------------------------------------------------------------------
(* Bounds of the model *)

MaxRecords == 2      \* attendance records the model lets the store hold
Slack == 1           \* seconds probed on either side of each window boundary
MaxGallery == 2      \* identities in the gallery
MaxCoord == 5        \* largest first coordinate of an encoding, in tenths
MaxFaces == 2        \* faces detected in one frame
MaxFiles == 2        \* files in the gallery directory

----------------------------------------------------------------------------
(* Program and calendar constants *)

GraceMinutes == 15           \* timedelta(minutes=15)
ToleranceTenths == 5         \* tolerance=0.5, in tenths
SecondsPerMinute == 60
SecondsPerHour == 3600
SecondsPerDay == 86400
DaysPerWeek == 7

None == "None"                       \* Python's None
AttributeError == "AttributeError"   \* 'NoneType' object has no attribute 'items'

StudentIds == {"s1", "s2"}
CourseIds == {"c1", "c2"}

DayNames == <<"Monday", "Tuesday", "Wednesday", "Thursday", "Friday",
              "Saturday", "Sunday">>

Range(f) == {f[i] : i \in DOMAIN f}

----------------------------------------------------------------------------
(* datetime *)

\* timestamp.strftime('%A')
Strftime_A(timestamp) == DayNames[(timestamp.date % DaysPerWeek) + 1]

\* datetime.strptime(text, '%H:%M').time(): the second of the day
Strptime_HM(text) == text[1] * SecondsPerHour + text[2] * SecondsPerMinute

\* datetime.combine(date, time)
Combine(date, time) == [date |-> date, tod |-> time]

\* the absolute second of a datetime, by which datetimes are ordered
Abs(dt) == dt.date * SecondsPerDay + dt.tod

\* timedelta(minutes=m), in seconds
Timedelta(m) == m * SecondsPerMinute

\* timestamp.date().isoformat(): the day number stands for its ISO text
DateIso(timestamp) == timestamp.date

\* timestamp.isoformat()
TimestampIso(timestamp) == <<timestamp.date, timestamp.tod>>

----------------------------------------------------------------------------
(* find_current_course *)

\* students_ref.order_by_child('student_id').equal_to(student_id).get()
StudentQuery(student_id) ==
    SelectSeq(students, LAMBDA st : st.student_id = student_id)

\* courses_ref.get() returns None when the node holds nothing
AllCoursesIsNone == courses = <<>>

\* mutant of InWindow: the last second of the grace period is left out
InWindowExclusive(class_start_datetime, timestamp, class_end_datetime) ==
    /\ Abs(class_start_datetime) <= Abs(timestamp)
    /\ Abs(timestamp) < Abs(class_end_datetime) + Timedelta(GraceMinutes)

\* class_start_datetime <= timestamp <= class_end_datetime + timedelta(minutes=15)
InWindow(class_start_datetime, timestamp, class_end_datetime) ==
    /\ Abs(class_start_datetime) <= Abs(timestamp)
    /\ Abs(timestamp) <= Abs(class_end_datetime) + Timedelta(GraceMinutes)

\* mutant of CourseIsCurrent: the student's enrolled courses are not consulted
CourseIsCurrentForAnyone(course_data, enrolled_courses, timestamp) ==
    LET day == Strftime_A(timestamp) IN
    /\ day \in DOMAIN course_data.schedule
    /\ LET class_time == course_data.schedule[day]
           class_start_datetime == Combine(timestamp.date, Strptime_HM(class_time.start_time))
           class_end_datetime == Combine(timestamp.date, Strptime_HM(class_time.end_time))
       IN  InWindow(class_start_datetime, timestamp, class_end_datetime)

\* the body of `for course_key, course_data in all_courses.items()` for one course:
\* TRUE when the loop returns this course's id
CourseIsCurrent(course_data, enrolled_courses, timestamp) ==
    LET day == Strftime_A(timestamp) IN
    /\ course_data.course_id \in Range(enrolled_courses)
    /\ day \in DOMAIN course_data.schedule
    /\ LET class_time == course_data.schedule[day]
           class_start == Strptime_HM(class_time.start_time)
           class_end == Strptime_HM(class_time.end_time)
           class_start_datetime == Combine(timestamp.date, class_start)
           class_end_datetime == Combine(timestamp.date, class_end)
       IN  InWindow(class_start_datetime, timestamp, class_end_datetime)

\* the loop over all_courses in store order: the first current course, else None
RECURSIVE CheckEachCourse(_, _, _)
CheckEachCourse(all_courses, enrolled_courses, timestamp) ==
    IF all_courses = <<>> THEN None
    ELSE IF CourseIsCurrent(Head(all_courses), enrolled_courses, timestamp)
         THEN Head(all_courses).course_id
         ELSE CheckEachCourse(Tail(all_courses), enrolled_courses, timestamp)

\* a sequence in reverse
Reversed(seq) == [i \in 1..Len(seq) |-> seq[Len(seq) + 1 - i]]

\* mutant of FindCurrentCourse: the courses are visited last to first
FindCurrentCourseReversed(student_id, timestamp) ==
    LET student_query == StudentQuery(student_id) IN
    IF student_query = <<>> THEN None
    ELSE IF AllCoursesIsNone THEN AttributeError
    ELSE CheckEachCourse(Reversed(courses), Head(student_query).enrolled_courses,
                         timestamp)

\* find_current_course(student_id, timestamp): a course_id, None, or the
\* AttributeError raised by None.items() when the courses node is empty
FindCurrentCourse(student_id, timestamp) ==
    LET student_query == StudentQuery(student_id) IN
    IF student_query = <<>> THEN None
    ELSE LET student_data == Head(student_query)
             enrolled_courses == student_data.enrolled_courses
         IN  IF AllCoursesIsNone THEN AttributeError
             ELSE CheckEachCourse(courses, enrolled_courses, timestamp)

----------------------------------------------------------------------------
(* mark_attendance *)

\* mutant of ExistingQuery: the query orders by the wrong child, 'course_id',
\* and so finds no record of the student
ExistingQueryWrongChild(student_id) ==
    SelectSeq(attendance, LAMBDA record : record.course_id = student_id)

\* attendance_ref.order_by_child('student_id').equal_to(student_id).get()
ExistingQuery(student_id) ==
    SelectSeq(attendance, LAMBDA record : record.student_id = student_id)

\* mutant of RecordMatches: the stored 'timestamp' is compared, not the 'date'
RecordMatchesByTimestamp(record, course_id, timestamp) ==
    /\ record.course_id = course_id
    /\ record.timestamp = TimestampIso(timestamp)

\* record.get('course_id') == course_id and record.get('date') == timestamp.date().isoformat()
RecordMatches(record, course_id, timestamp) ==
    /\ record.course_id = course_id
    /\ record.date = DateIso(timestamp)

\* the loop over existing_query.values(): TRUE when it returns False
AlreadyMarked(existing_query, course_id, timestamp) ==
    \E i \in DOMAIN existing_query :
        RecordMatches(existing_query[i], course_id, timestamp)

\* attendance_data
AttendanceData(student_id, course_id, timestamp) ==
    [course_id  |-> course_id,
     student_id |-> student_id,
     date       |-> DateIso(timestamp),
     timestamp  |-> TimestampIso(timestamp),
     status     |-> "present"]

\* what a call leaves in `call`: its result ("True", "False", or "Raised" when
\* an exception left the call) and the line it printed
CallRecord(result, printed) == [result |-> result, printed |-> printed]

\* no call made yet
NoCall == CallRecord(None, None)

\* `if not course_id`: the early return of mark_attendance
NoCourse(course_id) == course_id = None

\* mark_attendance(student_id, timestamp), the whole call
MarkAttendance(student_id, timestamp) ==
    LET course_id == FindCurrentCourse(student_id, timestamp) IN
    IF course_id = AttributeError
    THEN /\ call' = CallRecord("Raised", None)
         /\ UNCHANGED attendance
    ELSE IF NoCourse(course_id)
    THEN /\ call' = CallRecord("False", "No active course found")
         /\ UNCHANGED attendance
    ELSE IF AlreadyMarked(ExistingQuery(student_id), course_id, timestamp)
    THEN /\ call' = CallRecord("False", "Attendance already marked")
         /\ UNCHANGED attendance
    ELSE /\ Len(attendance) < MaxRecords
         /\ attendance' = Append(attendance,
                                 AttendanceData(student_id, course_id, timestamp))
         /\ call' = CallRecord("True", "Attendance marked")

----------------------------------------------------------------------------
(* The gallery match of recognize_faces.  An encoding is a vector of numbers; *)
(* the model keeps two coordinates, in tenths, and compares squared distances *)
(* (d <= t exactly when d*d <= t*t for d, t >= 0).                            *)

\* the squared Euclidean distance of two encodings
RECURSIVE SumSq(_, _, _)
SumSq(a, b, n) ==
    IF n = 0 THEN 0 ELSE (a[n] - b[n]) * (a[n] - b[n]) + SumSq(a, b, n - 1)

SqDist(a, b) == SumSq(a, b, Len(a))

\* mutant of CompareFaces: a distance equal to the tolerance is no match
CompareFacesStrict(known, face_encoding, tolerance) ==
    [i \in DOMAIN known |-> SqDist(known[i], face_encoding) < tolerance * tolerance]

\* face_recognition.compare_faces(known, face_encoding, tolerance): the
\* library's list(face_distance(known, face_encoding) <= tolerance)
CompareFaces(known, face_encoding, tolerance) ==
    [i \in DOMAIN known |-> SqDist(known[i], face_encoding) <= tolerance * tolerance]

\* mutant of IndexOfTrue: the last match of the list
IndexOfLastTrue(matches) ==
    CHOOSE i \in DOMAIN matches : matches[i] /\ \A j \in DOMAIN matches : matches[j] => j <= i

\* matches.index(True)
IndexOfTrue(matches) ==
    CHOOSE i \in DOMAIN matches : matches[i] /\ \A j \in 1..(i - 1) : ~matches[j]

\* the match step for one face: the name the face is given
MatchName(face_encoding) ==
    LET matches == CompareFaces(known_face_encodings, face_encoding, ToleranceTenths) IN
    IF TRUE \in Range(matches)
    THEN known_face_names[IndexOfTrue(matches)]
    ELSE "Unknown"

\* no gallery loaded, no match made
NoMatch == [face_encoding |-> <<>>, name |-> None]
\* no frame is being processed a second time
NoReplay ==
    [phase |-> "off", order |-> <<>>, times |-> <<>>,
     first |-> [records |-> {}, signals |-> 0],
     second |-> [records |-> {}, signals |-> 0]]
\* the program already running: nothing left of its start
Started ==
    /\ boot = "running"
    /\ firebase_ok = TRUE
    /\ dir = [ok |-> TRUE, files |-> <<>>]
    /\ todo = <<>>
    /\ loop = "off"
    /\ stop = None
    /\ replay = NoReplay

\* no application constructed
NoApp ==
    /\ Started
    /\ serial_connection = "None"
    /\ pc = "idle"
    /\ faces = <<>>
    /\ name = None
    /\ signals = 0
    /\ blink = None
    /\ annotated = <<>>
    /\ frame = <<>>

NoGallery ==
    /\ known_face_encodings = <<>>
    /\ known_face_names = <<>>
    /\ matched = NoMatch
    /\ NoApp

----------------------------------------------------------------------------
(* The stores and the clock readings the model draws from *)

Window(sh, sm, eh, em) == [start_time |-> <<sh, sm>>, end_time |-> <<eh, em>>]

\* two class windows; the grace period of the first overlaps the second
Windows == {Window(9, 0, 10, 0), Window(10, 0, 11, 0)}

\* a weekly schedule with one Monday session
Monday(w) == "Monday" :> w

\* the schedules drawn for the two courses: "c1" has no session or the first
\* window, "c2" the first or the second window
Schedules ==
    {[c \in CourseIds |-> IF c = "c1" THEN s1 ELSE s2] :
        s1 \in {<<>>, Monday(Window(9, 0, 10, 0))},
        s2 \in {Monday(w) : w \in Windows}}

\* two Mondays a week apart, on which sessions are held, and the Tuesday between
Mondays == {0, DaysPerWeek}
Tuesday == 1
Dates == Mondays \cup {Tuesday}

\* clock readings: one second before the earliest start, each start, and the
\* last second of each window with its grace period
CallTimes ==
    {Strptime_HM(w.start_time) : w \in Windows}
    \cup {Strptime_HM(w.end_time) + Timedelta(GraceMinutes) : w \in Windows}
    \cup {Strptime_HM(Window(9, 0, 10, 0).start_time) - 1}

\* the timestamps of the calls: every clock reading on the Mondays, and the
\* start of the second window on the Tuesday
Timestamps ==
    {[date |-> d, tod |-> t] : d \in Mondays, t \in CallTimes}
    \cup {[date |-> Tuesday, tod |-> Strptime_HM(Window(10, 0, 11, 0).start_time)]}

\* the course lists of the store, in push order: no course yet, or both
CourseLists == {<<>>, <<"c1", "c2">>}

\* the student lists of the store, in push order
StudentLists == {<<"s1">>, <<"s1", "s2">>}

\* a store as create_student, create_course and enroll_student_to_course build
\* it: unique ids, each enrollment recorded on both sides
StoreOf(ss, cs, sch, enr) ==
    [students |->
        [i \in DOMAIN ss |->
            [student_id |-> ss[i],
             enrolled_courses |->
                SelectSeq(cs, LAMBDA c : <<ss[i], c>> \in enr)]],
     courses |->
        [j \in DOMAIN cs |->
            [course_id |-> cs[j],
             enrolled_students |->
                SelectSeq(ss, LAMBDA s : <<s, cs[j]>> \in enr),
             schedule |-> sch[cs[j]]]]]

\* the enrollments drawn: "s1" in any of the courses, "s2" in "c1"
Enrollments ==
    {e1 \cup {<<"s2", "c1">>} : e1 \in SUBSET ({"s1"} \X CourseIds)}

Stores ==
    {StoreOf(ss, cs, sch, enr) :
        ss \in StudentLists, cs \in CourseLists,
        sch \in Schedules, enr \in Enrollments}

----------------------------------------------------------------------------
(* The ledger: mark_attendance called one call at a time *)

\* no find_current_course call made yet
NoTimestamp == [date |-> -1, tod |-> -1]
NoProbe == [student_id |-> None, timestamp |-> NoTimestamp, course_id |-> None]

\* the processes that may run mark_attendance against the one store
Procs == {"p1", "p2"}

\* a process outside mark_attendance; `result` is what its last call returned
Idle(result) ==
    [pc |-> "idle", student_id |-> None, timestamp |-> NoTimestamp,
     course_id |-> None, result |-> result]

Init ==
    /\ \E st \in Stores : students = st.students /\ courses = st.courses
    /\ attendance = <<>>
    /\ call = NoCall
    /\ probe = NoProbe
    /\ inv = [p \in Procs |-> Idle(None)]
    /\ NoGallery

Mark ==
    \E student_id \in StudentIds, timestamp \in Timestamps :
        /\ MarkAttendance(student_id, timestamp)
        /\ UNCHANGED <<students, courses, probe, inv, galleryVars, matched, appVars, startVars, runVars>>

Next == Mark

Spec == Init /\ [][Next]_vars

----------------------------------------------------------------------------
(* What the claims speak of, stated from the schedule and the store *)

\* the records of the store with status 'present' for a triple
PresentRecords(store, student_id, course_id, date) ==
    {i \in DOMAIN store :
        /\ store[i].status = "present"
        /\ store[i].student_id = student_id
        /\ store[i].course_id = course_id
        /\ store[i].date = date}

\* the student has an entry that lists the course
Enrolled(student_id, course_id) ==
    \E i \in DOMAIN students :
        /\ students[i].student_id = student_id
        /\ \E k \in DOMAIN students[i].enrolled_courses :
              students[i].enrolled_courses[k] = course_id

\* the course is in session at the timestamp: its schedule has the timestamp's
\* weekday, and start <= time of day <= end + 15 minutes on that date
InSession(course, timestamp) ==
    LET day == DayNames[(timestamp.date % 7) + 1] IN
    /\ day \in DOMAIN course.schedule
    /\ LET w == course.schedule[day]
           start == (w.start_time[1] * 60 + w.start_time[2]) * 60
           end == (w.end_time[1] * 60 + w.end_time[2]) * 60
       IN  start <= timestamp.tod /\ timestamp.tod <= end + 15 * 60

\* the student's enrolled courses in session at the timestamp
ActiveCourses(student_id, timestamp) ==
    {courses[j].course_id : j \in
        {j \in DOMAIN courses :
            /\ Enrolled(student_id, courses[j].course_id)
            /\ InSession(courses[j], timestamp)}}

----------------------------------------------------------------------------
(* Claims on the ledger *)

\* C1: after any sequence of mark_attendance calls made one at a time, the
\* store holds at most one 'present' record per (student_id, course_id, date).
C1_UniquePresent ==
    \A i, j \in DOMAIN attendance :
        (/\ attendance[i].status = "present"
         /\ attendance[j].status = "present"
         /\ attendance[i].student_id = attendance[j].student_id
         /\ attendance[i].course_id = attendance[j].course_id
         /\ attendance[i].date = attendance[j].date) => i = j

\* C1 witness: two records are stored and a further call for a marked triple
\* was answered "already marked"
C1_Witness ==
    /\ Len(attendance) = 2
    /\ call.printed = "Attendance already marked"

\* C3: a mark whose timestamp resolves to a course returns True and appends the
\* one 'present' record of (student, course, day) when the store holds none, and
\* returns False ("already marked") and changes nothing in the store when it
\* holds one; records are never removed, so once marked every later mark of
\* that day and course is answered "already marked".
C3_IdempotentMark ==
    [][/\ Len(attendance) <= Len(attendance')
       /\ SubSeq(attendance', 1, Len(attendance)) = attendance
       /\ \A student_id \in StudentIds, timestamp \in Timestamps :
            LET course_id == FindCurrentCourse(student_id, timestamp)
                before == PresentRecords(attendance, student_id, course_id,
                                         timestamp.date)
                after == PresentRecords(attendance', student_id, course_id,
                                        timestamp.date)
            IN  (course_id \in CourseIds /\ MarkAttendance(student_id, timestamp))
                => IF before = {}
                   THEN /\ call'.result = "True"
                        /\ Len(attendance') = Len(attendance) + 1
                        /\ Cardinality(after) = 1
                   ELSE /\ call'.result = "False"
                        /\ call'.printed = "Attendance already marked"
                        /\ attendance' = attendance
                        /\ Cardinality(before) = 1]_vars

\* C3 witness: the first mark of a triple was recorded and the next call, for
\* the same triple, was answered "already marked"
C3_Witness ==
    /\ Len(attendance) = 1
    /\ call.result = "False"
    /\ call.printed = "Attendance already marked"

\* C5 (as claimed): a call for a student with no enrolled course in session at
\* the timestamp returns False (no active course) and leaves the store as it was.
C5_NoActiveCourse ==
    [][\A student_id \in StudentIds, timestamp \in Timestamps :
        (MarkAttendance(student_id, timestamp)
         /\ ActiveCourses(student_id, timestamp) = {})
        => (/\ call'.result = "False"
            /\ call'.printed = "No active course found"
            /\ attendance' = attendance)]_vars

\* C7 (as claimed): whatever the store holds, mark_attendance returns one of
\* its outcomes and never raises.
C7_NeverRaises == call.result # "Raised"

----------------------------------------------------------------------------
(* The schedule resolver alone: find_current_course on a store in which each *)
(* student is enrolled in a single course with one weekly session            *)

\* the windows of the resolver's stores; the grace period of the last one
\* ends after midnight
ResolveWindows == Windows \cup {Window(23, 0, 23, 50)}

\* the boundaries of a window: its start, its end, its end with the grace period
Boundaries(w) ==
    {Strptime_HM(w.start_time), Strptime_HM(w.end_time),
     Strptime_HM(w.end_time) + Timedelta(GraceMinutes)}

\* clock readings within Slack seconds of a boundary of some window
ProbeTimes ==
    {(b + d) % SecondsPerDay :
        b \in UNION {Boundaries(w) : w \in ResolveWindows}, d \in (0 - Slack)..Slack}

ProbeTimestamps == {[date |-> d, tod |-> t] : d \in Dates, t \in ProbeTimes}

\* "s1" is enrolled in "c1" alone, held on `day` in window w; the store may
\* hold a second course "c2", a Monday class of "s2" alone, before or after it
ResolveStores ==
    {StoreOf(<<"s1", "s2">>, cs,
             [c \in CourseIds |-> IF c = "c1" THEN day :> w
                                  ELSE Monday(Window(9, 0, 10, 0))],
             {<<"s1", "c1">>, <<"s2", "c2">>}) :
        cs \in {<<"c1">>, <<"c1", "c2">>, <<"c2", "c1">>},
        day \in {"Monday", "Tuesday"}, w \in ResolveWindows}

InitResolve ==
    /\ \E st \in ResolveStores : students = st.students /\ courses = st.courses
    /\ attendance = <<>>
    /\ call = NoCall
    /\ probe = NoProbe
    /\ inv = [p \in Procs |-> Idle(None)]
    /\ NoGallery

\* one call find_current_course(student_id, timestamp)
Resolve ==
    \E student_id \in StudentIds, timestamp \in ProbeTimestamps :
        /\ probe' = [student_id |-> student_id, timestamp |-> timestamp,
                     course_id |-> FindCurrentCourse(student_id, timestamp)]
        /\ UNCHANGED <<students, courses, attendance, call, inv, galleryVars, matched, appVars, startVars, runVars>>

NextResolve == Resolve

SpecResolve == InitResolve /\ [][NextResolve]_vars

\* the courses of the store the student is enrolled in
EnrolledCourses(student_id) ==
    {j \in DOMAIN courses : Enrolled(student_id, courses[j].course_id)}

\* C4: for a student enrolled in a single course with one weekly session,
\* find_current_course returns that course exactly when the timestamp's weekday
\* is the session's and start <= timestamp <= end + 15 minutes on the
\* timestamp's date, both bounds included, and returns None otherwise (so also
\* one second before start and one second after end + 15 minutes).
C4_WindowInclusive ==
    \A j \in DOMAIN courses :
        (/\ probe # NoProbe
         /\ EnrolledCourses(probe.student_id) = {j}
         /\ Cardinality(DOMAIN courses[j].schedule) = 1)
        => /\ InSession(courses[j], probe.timestamp)
                => probe.course_id = courses[j].course_id
           /\ ~InSession(courses[j], probe.timestamp)
                => probe.course_id = None

\* C4 witness: a probe at the last second of the grace period, end + 15 minutes
\* to the second, returned the course
C4_Witness ==
    \E j \in DOMAIN courses :
        /\ EnrolledCourses(probe.student_id) = {j}
        /\ probe.course_id = courses[j].course_id
        /\ \E day \in DOMAIN courses[j].schedule :
              LET w == courses[j].schedule[day] IN
              probe.timestamp.tod =
                  (w.end_time[1] * 60 + w.end_time[2]) * 60 + 15 * 60

----------------------------------------------------------------------------
(* mark_attendance run by two processes against the one store.  A call is   *)
(* the sequence of its store accesses: the reads of find_current_course, the *)
(* read of the student's attendance records (followed by the local loop over *)
(* them), and the push of the new record.                                    *)

\* the store of the concurrent runs: both courses on Monday, the grace period
\* of the first overlapping the second; "s1" in both, "s2" in "c1"
ConcStore ==
    StoreOf(<<"s1", "s2">>, <<"c1", "c2">>,
            [c \in CourseIds |-> IF c = "c1" THEN Monday(Window(9, 0, 10, 0))
                                 ELSE Monday(Window(10, 0, 11, 0))],
            {<<"s1", "c1">>, <<"s1", "c2">>, <<"s2", "c1">>})

\* the timestamps of the concurrent calls: the first Monday at the start and in
\* the last second of the second window, the next Monday at its start
ConcTimestamps ==
    {[date |-> 0, tod |-> Strptime_HM(Window(10, 0, 11, 0).start_time)],
     [date |-> 0, tod |-> Strptime_HM(Window(10, 0, 11, 0).end_time)
                          + Timedelta(GraceMinutes)],
     [date |-> DaysPerWeek, tod |-> Strptime_HM(Window(10, 0, 11, 0).start_time)]}

InitConc ==
    /\ students = ConcStore.students
    /\ courses = ConcStore.courses
    /\ attendance = <<>>
    /\ call = NoCall
    /\ probe = NoProbe
    /\ inv = [p \in Procs |-> Idle(None)]
    /\ NoGallery

\* process p enters mark_attendance(student_id, timestamp)
Enter(p) ==
    /\ inv[p].pc = "idle"
    /\ \E student_id \in StudentIds, timestamp \in ConcTimestamps :
          inv' = [inv EXCEPT ![p] =
                    [pc |-> "find", student_id |-> student_id,
                     timestamp |-> timestamp, course_id |-> None,
                     result |-> None]]
    /\ UNCHANGED <<students, courses, attendance, call, probe, galleryVars, matched, appVars, startVars, runVars>>

\* course_id = find_current_course(student_id, timestamp); `if not course_id`
Find(p) ==
    /\ inv[p].pc = "find"
    /\ LET course_id == FindCurrentCourse(inv[p].student_id, inv[p].timestamp) IN
       inv' = [inv EXCEPT ![p] =
                 IF course_id = AttributeError THEN Idle("Raised")
                 ELSE IF NoCourse(course_id) THEN Idle("False")
                 ELSE [@ EXCEPT !.pc = "query", !.course_id = course_id]]
    /\ UNCHANGED <<students, courses, attendance, call, probe, galleryVars, matched, appVars, startVars, runVars>>

\* existing_query = ...get(), then the loop over the records it returned
Query(p) ==
    /\ inv[p].pc = "query"
    /\ inv' = [inv EXCEPT ![p] =
                 IF AlreadyMarked(ExistingQuery(inv[p].student_id),
                                  inv[p].course_id, inv[p].timestamp)
                 THEN Idle("False")
                 ELSE [@ EXCEPT !.pc = "push"]]
    /\ UNCHANGED <<students, courses, attendance, call, probe, galleryVars, matched, appVars, startVars, runVars>>

\* new_attendance_ref = attendance_ref.push(); new_attendance_ref.set(attendance_data)
Push(p) ==
    /\ inv[p].pc = "push"
    /\ Len(attendance) < MaxRecords
    /\ attendance' = Append(attendance,
                            AttendanceData(inv[p].student_id, inv[p].course_id,
                                           inv[p].timestamp))
    /\ inv' = [inv EXCEPT ![p] = Idle("True")]
    /\ UNCHANGED <<students, courses, call, probe, galleryVars, matched, appVars, startVars, runVars>>

NextConc == \E p \in Procs : Enter(p) \/ Find(p) \/ Query(p) \/ Push(p)

SpecConc == InitConc /\ [][NextConc]_vars

\* C2 (as claimed): also when two mark_attendance invocations are in progress
\* at once, their store reads and writes interleaving, no reachable state has
\* two 'present' records for one (student_id, course_id, date).
C2_UniqueUnderConcurrency ==
    \A student_id \in StudentIds, course_id \in CourseIds, date \in Dates :
        Cardinality(PresentRecords(attendance, student_id, course_id, date)) <= 1

----------------------------------------------------------------------------
(* The match step alone, over galleries and query encodings *)

\* the encodings drawn: first coordinate 0..MaxCoord, second 0 or 4 (so that
\* some pairs lie at distance 5 tenths exactly: <<0,0>> and <<3,4>>, <<5,0>>)
Encodings == {<<x, y>> : x \in 0..MaxCoord, y \in {0, 4}}

\* the labels of the gallery, in load order
Labels == <<"s1", "s2", "s3", "s4">>

InitMatch ==
    /\ students = <<>>
    /\ courses = <<>>
    /\ attendance = <<>>
    /\ call = NoCall
    /\ probe = NoProbe
    /\ inv = [p \in Procs |-> Idle(None)]
    /\ \E n \in 0..MaxGallery :
          /\ known_face_encodings \in [1..n -> Encodings]
          /\ known_face_names = SubSeq(Labels, 1, n)
    /\ matched = NoMatch
    /\ NoApp

\* the match step of recognize_faces for one face encoding
Match ==
    \E face_encoding \in Encodings :
        /\ matched' = [face_encoding |-> face_encoding,
                       name |-> MatchName(face_encoding)]
        /\ UNCHANGED <<ledgerVars, galleryVars, appVars, startVars, runVars>>

NextMatch == Match

SpecMatch == InitMatch /\ [][NextMatch]_vars

\* the squared distance from the query of the last match to identity i
QueryDist(i) == SqDist(known_face_encodings[i], matched.face_encoding)

\* the identities closest to the query of the last match
Closest ==
    {i \in DOMAIN known_face_encodings :
        \A j \in DOMAIN known_face_encodings : QueryDist(i) <= QueryDist(j)}

----------------------------------------------------------------------------
(* recognize_faces: for each face of the frame the match, the call of        *)
(* mark_attendance, the LED signal and the annotation, one step each         *)

\* the gallery of the application: "s1" and "s2", a tenth apart
AppEncodings == <<<<0, 0>>, <<1, 0>>>>
AppNames == <<"s1", "s2">>

\* the faces a frame may show: "s1" itself, a face within tolerance of "s2"
\* alone, and a face of nobody in the gallery
AppFaces == {<<0, 0>>, <<4, 4>>, <<5, 4>>}

Frames == UNION {[1..n -> AppFaces] : n \in 0..MaxFaces}

\* the stores of the application: the store of the concurrent runs, and a store
\* with the student "s1" and no course yet
AppStores == {ConcStore, StoreOf(<<"s1">>, <<>>, [c \in CourseIds |-> <<>>], {})}

InitApp ==
    /\ \E st \in AppStores : students = st.students /\ courses = st.courses
    /\ attendance = <<>>
    /\ call = NoCall
    /\ probe = NoProbe
    /\ inv = [p \in Procs |-> Idle(None)]
    /\ known_face_encodings = AppEncodings
    /\ known_face_names = AppNames
    /\ matched = NoMatch
    /\ serial_connection \in {"None", "open"}
    /\ Started
    /\ pc = "idle"
    /\ faces = <<>>
    /\ name = None
    /\ signals = 0
    /\ blink = None
    /\ annotated = <<>>
    /\ frame = <<>>

\* recognize_faces(frame): face_locations and face_encodings of the frame
EnterRecognize(detected) ==
    /\ pc = "idle"
    /\ frame' = detected
    /\ faces' = detected
    /\ pc' = IF detected = <<>> THEN "idle" ELSE "match"
    /\ annotated' = <<>>
    /\ UNCHANGED <<galleryVars, matched, serial_connection, name, blink>>

\* a call of recognize_faces on any frame
RecognizeFaces ==
    /\ \E detected \in Frames : EnterRecognize(detected)
    /\ UNCHANGED <<startVars, runVars, ledgerVars, signals>>

\* compare_faces and `if True in matches`: the face gets its name
MatchFace ==
    /\ pc = "match"
    /\ name' = MatchName(Head(faces))
    /\ pc' = IF name' = "Unknown" THEN "draw" ELSE "mark"
    /\ UNCHANGED <<startVars, runVars, ledgerVars, galleryVars, matched, serial_connection, faces,
                   signals, blink, annotated, frame>>

\* mutant of AfterMark: the signal follows every call that did not raise
AfterMarkUnlessRaised(result) == IF result # "Raised" THEN "led" ELSE "draw"

\* mutant of AfterMark: without the inner try, an exception of mark_attendance
\* goes to the outer except, which returns the frame at once
AfterMarkOuterExcept(result) ==
    IF result = "True" THEN "led" ELSE IF result = "Raised" THEN "idle" ELSE "draw"

\* `if attendance_result:` inside the try: the LED follows a True result; a
\* False result, or an exception (logged by the except), goes on to the drawing
AfterMark(result) == IF result = "True" THEN "led" ELSE "draw"

\* attendance_result = AttendanceSystemSchema.mark_attendance(student_id),
\* with timestamp = datetime.now()
MarkFaceAt(now) ==
    /\ pc = "mark"
    /\ MarkAttendance(name, now)
    /\ pc' = AfterMark(call'.result)
    /\ UNCHANGED <<startVars, runVars, students, courses, probe, inv, galleryVars, matched,
                   serial_connection, faces, name, signals, blink, annotated, frame>>

\* the call at any reading of the clock
MarkFace == \E now \in ConcTimestamps : MarkFaceAt(now)

\* a store call of mark_attendance raises before anything is written (the
\* store cannot be reached): `except Exception as e:` logs it
MarkFaceFails ==
    /\ pc = "mark"
    /\ call' = CallRecord("Raised", None)
    /\ pc' = AfterMark(call'.result)
    /\ UNCHANGED <<startVars, runVars, students, courses, attendance, probe, inv, galleryVars,
                   matched, serial_connection, faces, name, signals, blink, annotated, frame>>

\* mutant of AttendanceAfterBlink: a failed signal takes the record back
AttendanceRolledBack(confirmed) ==
    IF confirmed = "True" THEN attendance
    ELSE SubSeq(attendance, 1, Len(attendance) - 1)

\* the store after `if self.trigger_led_blink(): ... else: ...`: both branches
\* only log
AttendanceAfterBlink(confirmed) == attendance

\* trigger_led_blink() and the two log lines that follow it
LedBlink ==
    /\ pc = "led"
    /\ signals' = signals + 1
    /\ \/ /\ serial_connection = "open"     \* write(b'blink\n') went out
          /\ blink' = "True"
       \/ /\ serial_connection = "open"     \* write raised: the except returns False
          /\ blink' = "False"
       \/ /\ serial_connection # "open"     \* "Serial connection not available"
          /\ blink' = "False"
    /\ attendance' = AttendanceAfterBlink(blink')
    /\ pc' = "draw"
    /\ UNCHANGED <<startVars, runVars, students, courses, call, probe, inv, galleryVars, matched,
                   serial_connection, faces, name, annotated, frame>>

\* cv2.rectangle and cv2.putText, then the next face or `return frame`
DrawFace ==
    /\ pc = "draw"
    /\ annotated' = Append(annotated, name)
    /\ faces' = Tail(faces)
    /\ pc' = IF faces' = <<>> THEN "idle" ELSE "match"
    /\ UNCHANGED <<startVars, runVars, ledgerVars, galleryVars, matched, serial_connection, name,
                   signals, blink, frame>>

NextApp == RecognizeFaces \/ MatchFace \/ MarkFace \/ MarkFaceFails \/ LedBlink \/ DrawFace

SpecApp == InitApp /\ [][NextApp]_vars

\* the last record of the store is a 'present' record of the student
LastRecordOf(store, student_id) ==
    /\ Len(store) >= 1
    /\ store[Len(store)].student_id = student_id
    /\ store[Len(store)].status = "present"

\* C8: the signal is requested for a face exactly when mark_attendance returned
\* True for it, and after the record was written; when the call returned False
\* (already marked, no active course) or raised, or the face is unmatched, no
\* signal is requested and no record is written.
C8_SignalOnlyOnMarked ==
    [][/\ pc = "match" =>
            /\ signals' = signals /\ attendance' = attendance
            /\ name' = "Unknown" => pc' = "draw"
       /\ pc = "mark" =>
            /\ signals' = signals
            /\ (pc' = "led") <=> (call'.result = "True")
            /\ (attendance' # attendance) <=> (call'.result = "True")
            /\ call'.result = "True" => LastRecordOf(attendance', name)
       /\ pc = "led" =>
            /\ signals' = signals + 1
            /\ call.result = "True"
            /\ LastRecordOf(attendance, name)
       /\ pc \in {"idle", "draw"} =>
            /\ signals' = signals /\ attendance' = attendance
            /\ pc' # "led"]_vars

\* C8 witness: one face was marked and signalled, a later face was answered
\* "already marked" and is being drawn with no further signal
C8_Witness ==
    /\ pc = "draw"
    /\ signals = 1
    /\ Len(attendance) = 1
    /\ call.printed = "Attendance already marked"

\* C9: when the signal that follows a Marked result fails (no serial
\* connection, or the write raises), the record written by that mark is still
\* in the store and the store is otherwise unchanged.
C9_NoRollback ==
    [][(pc = "led" /\ blink' = "False") =>
            /\ attendance' = attendance
            /\ LastRecordOf(attendance', name)]_vars

\* C9 witness: the face was marked, the signal failed, the record is in the store
C9_Witness ==
    /\ pc = "draw"
    /\ call.result = "True"
    /\ blink = "False"
    /\ LastRecordOf(attendance, name)

----------------------------------------------------------------------------
(* The start of the program: __main__ constructs FaceRecognitionApp          *)
(* (__init__: serial connection, setup_firebase, load_known_faces) and then  *)
(* calls run()                                                               *)

\* a file of the gallery directory: its name (stem and extension), whether
\* load_image_file reads it, and the encodings face_encodings finds in it
File(stem, ext, decodes, encodings) ==
    [stem |-> stem, ext |-> ext, decodes |-> decodes, encodings |-> encodings]

Files ==
    {File("s1", ".jpg", TRUE, <<<<0, 0>>>>),
     File("s2", ".PNG", TRUE, <<<<1, 0>>, <<5, 4>>>>),
     File("s3", ".jpeg", FALSE, <<>>),
     File("s4", ".png", TRUE, <<>>),
     File("notes", ".txt", TRUE, <<>>)}

Listings == UNION {[1..n -> Files] : n \in 0..MaxFiles}

\* ext.lower()
Lower(ext) ==
    CASE ext = ".PNG" -> ".png"
      [] ext = ".JPG" -> ".jpg"
      [] ext = ".JPEG" -> ".jpeg"
      [] OTHER -> ext

\* mutant of IsImageName: the extension is compared as written
IsImageNameCaseSensitive(file) == file.ext \in {".jpg", ".jpeg", ".png"}

\* filename.lower().endswith(('.jpg', '.jpeg', '.png'))
IsImageName(file) == Lower(file.ext) \in {".jpg", ".jpeg", ".png"}

InitStart ==
    /\ students = <<>>
    /\ courses = <<>>
    /\ attendance = <<>>
    /\ call = NoCall
    /\ probe = NoProbe
    /\ inv = [p \in Procs |-> Idle(None)]
    /\ known_face_encodings = <<>>
    /\ known_face_names = <<>>
    /\ matched = NoMatch
    /\ serial_connection = "None"
    /\ pc = "idle"
    /\ faces = <<>>
    /\ name = None
    /\ signals = 0
    /\ blink = None
    /\ annotated = <<>>
    /\ frame = <<>>
    /\ boot = "main"
    /\ firebase_ok \in BOOLEAN
    /\ \/ dir = [ok |-> FALSE, files |-> <<>>]      \* missing or unreadable
       \/ \E files \in Listings : dir = [ok |-> TRUE, files |-> files]
    /\ todo = <<>>
    /\ loop = "off"
    /\ stop = None
    /\ replay = NoReplay

\* __init__, to the serial connection: serial.Serial(...) opens the port, or
\* raises and the except leaves self.serial_connection = None
OpenSerial ==
    /\ boot = "main"
    /\ serial_connection' \in {"open", "None"}
    /\ boot' = "serial"
    /\ UNCHANGED <<ledgerVars, galleryVars, matched, pc, faces, name, signals,
                   blink, annotated, frame, runVars, firebase_ok, dir, todo>>

\* self.firebase_db = setup_firebase(); `if self.firebase_db is None: raise`
SetupFirebase ==
    /\ boot = "serial"
    /\ boot' = IF firebase_ok THEN "firebase" ELSE "failed"
    /\ UNCHANGED <<ledgerVars, galleryVars, matched, appVars, runVars, firebase_ok, dir, todo>>

\* load_known_faces(), to os.listdir: the listing, or an exception that the
\* outer except logs, after which load_known_faces returns
ListDir ==
    /\ boot = "firebase"
    /\ IF dir.ok
       THEN boot' = "loading" /\ todo' = dir.files
       ELSE boot' = "constructed" /\ todo' = <<>>
    /\ UNCHANGED <<ledgerVars, galleryVars, matched, appVars, runVars, firebase_ok, dir>>

\* one turn of `for filename in os.listdir(...)`
LoadFile ==
    /\ boot = "loading"
    /\ todo # <<>>
    /\ LET file == Head(todo) IN
       IF IsImageName(file) /\ file.decodes /\ Len(file.encodings) > 0
       THEN /\ known_face_encodings' = Append(known_face_encodings, file.encodings[1])
            /\ known_face_names' = Append(known_face_names, file.stem)
       ELSE UNCHANGED galleryVars
    /\ todo' = Tail(todo)
    /\ UNCHANGED <<ledgerVars, matched, appVars, runVars, boot, firebase_ok, dir>>

\* the loop is over: "Loaded n known faces", and __init__ returns
LoadDone ==
    /\ boot = "loading"
    /\ todo = <<>>
    /\ boot' = "constructed"
    /\ UNCHANGED <<ledgerVars, galleryVars, matched, appVars, runVars, firebase_ok, dir, todo>>

\* app.run(): the recognition loop is entered
Run ==
    /\ boot = "constructed"
    /\ boot' = "running"
    /\ UNCHANGED <<ledgerVars, galleryVars, matched, appVars, runVars, firebase_ok, dir, todo>>

NextStart == OpenSerial \/ SetupFirebase \/ ListDir \/ LoadFile \/ LoadDone \/ Run

SpecStart == InitStart /\ [][NextStart]_vars

\* C10 (as claimed): if the store cannot be opened, or the gallery directory is
\* missing or unreadable, construction fails and run() is never entered.
C10_StartupFailureFatal ==
    (~firebase_ok \/ ~dir.ok) => boot \notin {"constructed", "running"}

----------------------------------------------------------------------------
(* run(): the loop of capture_from_esp32cam, recognize_faces, cv2.imshow,    *)
(* cv2.waitKey and time.sleep, the KeyboardInterrupt handler and the finally *)

InitRun ==
    /\ \E st \in AppStores : students = st.students /\ courses = st.courses
    /\ attendance = <<>>
    /\ call = NoCall
    /\ probe = NoProbe
    /\ inv = [p \in Procs |-> Idle(None)]
    /\ known_face_encodings = AppEncodings
    /\ known_face_names = AppNames
    /\ matched = NoMatch
    /\ serial_connection \in {"None", "open"}
    /\ boot = "running"
    /\ firebase_ok = TRUE
    /\ dir = [ok |-> TRUE, files |-> <<>>]
    /\ todo = <<>>
    /\ pc = "idle"
    /\ faces = <<>>
    /\ name = None
    /\ signals = 0
    /\ blink = None
    /\ annotated = <<>>
    /\ frame = <<>>
    /\ loop = "capture"
    /\ stop = None
    /\ replay = NoReplay

\* mutant of AfterCapture: a failed fetch leaves the loop
AfterCaptureOrExit(got) == IF got THEN "recognize" ELSE "finally"

\* `if frame is not None:` the frame goes to recognize_faces; a fetch that
\* failed (status other than 200, an exception or a timeout, all returned as
\* None by capture_from_esp32cam) skips to cv2.waitKey
AfterCapture(got) == IF got THEN "recognize" ELSE "waitkey"

\* frame = self.capture_from_esp32cam(), and the call of recognize_faces
Capture ==
    /\ loop = "capture"
    /\ \/ /\ \E detected \in Frames : EnterRecognize(detected)
          /\ loop' = AfterCapture(TRUE)
       \/ /\ loop' = AfterCapture(FALSE)
          /\ UNCHANGED <<appVars, galleryVars, matched>>
    /\ UNCHANGED <<startVars, ledgerVars, signals, stop, replay>>

\* the steps of recognize_faces, inside the loop
RunFace ==
    /\ loop = "recognize"
    /\ (MatchFace \/ MarkFace \/ MarkFaceFails \/ LedBlink \/ DrawFace)

\* recognize_faces returned: cv2.imshow shows the annotated frame
Show ==
    /\ loop = "recognize"
    /\ pc = "idle"
    /\ loop' = "waitkey"
    /\ UNCHANGED <<startVars, ledgerVars, galleryVars, matched, appVars, stop, replay>>

\* `if cv2.waitKey(1) & 0xFF == ord('q'): break`, else time.sleep(0.5)
WaitKey ==
    /\ loop = "waitkey"
    /\ \/ /\ stop' = "q"
          /\ loop' = "finally"
       \/ /\ stop' = stop
          /\ loop' = "capture"
    /\ UNCHANGED <<startVars, ledgerVars, galleryVars, matched, appVars, replay>>

\* Ctrl-C at any point of the loop: the `except Exception` handlers of
\* capture_from_esp32cam, recognize_faces and trigger_led_blink do not catch
\* KeyboardInterrupt, the handler of run() does
KeyboardInterrupt ==
    /\ loop \in {"capture", "recognize", "waitkey"}
    /\ stop' = "KeyboardInterrupt"
    /\ loop' = "finally"
    /\ UNCHANGED <<startVars, ledgerVars, galleryVars, matched, appVars, replay>>

\* mutant of SerialAfterRun: the connection is left as it was
SerialLeftOpen(connection) == connection

\* `if hasattr(self, 'serial_connection') and self.serial_connection:
\*      self.serial_connection.close()`
SerialAfterRun(connection) == IF connection = "open" THEN "closed" ELSE connection

\* finally: cv2.destroyAllWindows() and the close of the serial connection
Finally ==
    /\ loop = "finally"
    /\ serial_connection' = SerialAfterRun(serial_connection)
    /\ loop' = "exited"
    /\ UNCHANGED <<startVars, ledgerVars, galleryVars, matched, pc, faces, name, signals,
                   blink, annotated, frame, stop, replay>>

NextRun == Capture \/ RunFace \/ Show \/ WaitKey \/ KeyboardInterrupt \/ Finally

SpecRun == InitRun /\ [][NextRun]_vars

\* the loop is running
Running == loop \in {"capture", "recognize", "waitkey"}

\* C11: a failed or timed-out frame fetch, a raise inside mark_attendance and
\* a failed actuator call are all absorbed: the loop stays running, goes on
\* to the drawing of the face and to cv2.waitKey, and from there to the next
\* capture; the loop leaves its running state only in a step that observes a
\* stop signal.
C11_FailuresAbsorbed ==
    [][/\ (Running /\ ~Running') => (stop = None /\ stop' \in {"q", "KeyboardInterrupt"})
       /\ (loop = "capture" /\ stop' = None) => loop' \in {"recognize", "waitkey"}
       /\ (loop = "recognize" /\ pc = "mark" /\ stop' = None /\ call'.result = "Raised") =>
              (loop' = "recognize" /\ pc' = "draw")
       /\ (loop = "recognize" /\ pc = "led" /\ stop' = None) =>
              (loop' = "recognize" /\ pc' = "draw")
       /\ (loop = "recognize" /\ pc = "idle" /\ stop' = None) => loop' = "waitkey"
       /\ (loop = "waitkey" /\ stop' = None) => loop' = "capture"]_vars

\* C11 witness: in one frame the actuator call failed for the first face and
\* mark_attendance raised for the second; both were drawn, and the loop is at
\* its next capture with no stop signal
C11_Witness ==
    /\ loop = "capture"
    /\ stop = None
    /\ Len(attendance) = 1
    /\ blink = "False"
    /\ call.result = "Raised"
    /\ Len(annotated) = 2

\* C12 (as claimed): a stop signal, the quit key or a keyboard interrupt, is
\* observed only between frames, after the current frame is fully processed.
C12_StopBetweenFrames ==
    [][(stop = None /\ stop' # None) =>
            (loop = "waitkey" /\ pc = "idle" /\ faces = <<>>)]_vars

\* C12 (amended): the quit key is polled once per iteration, after the frame
\* is fully processed; a keyboard interrupt is observed at any point of the
\* loop. Once either is observed no frame is captured and no record written,
\* the next step is the finally, and run() ends with no open serial connection.
C12_StopAndRelease ==
    /\ [](loop = "exited" => (stop # None /\ serial_connection # "open"))
    /\ [][/\ (stop = None /\ stop' = "q") =>
                (loop = "waitkey" /\ pc = "idle" /\ faces = <<>>)
          /\ (stop = None /\ stop' # None) =>
                (loop' = "finally" /\ attendance' = attendance /\ signals' = signals)
          /\ stop # None =>
                /\ loop = "finally" /\ loop' = "exited"
                /\ attendance' = attendance /\ signals' = signals
                /\ frame' = frame /\ faces' = faces /\ pc' = pc
                /\ serial_connection' # "open"
          /\ (loop = "waitkey" /\ stop' = None) => loop' = "capture"
          /\ (loop = "capture" /\ stop' = None) => loop' \in {"recognize", "waitkey"}]_vars

\* C12 witness: a keyboard interrupt came between the record of a face and
\* its signal; run() has ended and the serial connection is closed
C12_Witness ==
    /\ loop = "exited"
    /\ stop = "KeyboardInterrupt"
    /\ pc = "led"
    /\ serial_connection = "closed"

\* the annotation each face of a frame is due: its label, or "Unknown"
RECURSIVE Labelled(_)
Labelled(detected) ==
    IF detected = <<>> THEN <<>>
    ELSE <<MatchName(Head(detected))>> \o Labelled(Tail(detected))

\* C13: when recognize_faces returns, every face of the frame has its
\* annotation, the label of its match or "Unknown", in the order of the faces,
\* whatever mark_attendance returned or raised for any of them; until then
\* every face moves on to its drawing and the next face to its match.
C13_AnnotationIndependent ==
    /\ pc = "idle" => (faces = <<>> /\ annotated = Labelled(frame))
    /\ pc # "idle" =>
          /\ faces # <<>>
          /\ annotated \o Labelled(faces) = Labelled(frame)

\* C13 witness: mark_attendance raised for the first face of a frame, "s1",
\* who has a course in session at every reading of the clock; the second
\* face, "s2", was marked, and the frame is returned with both annotated
C13_Witness ==
    /\ pc = "idle"
    /\ courses # <<>>
    /\ annotated = <<"s1", "s2">>
    /\ Len(attendance) = 1
    /\ attendance[1].student_id = "s2"
    /\ call.result = "True"

----------------------------------------------------------------------------
(* recognize_faces on one frame, twice from the same store: once with the    *)
(* faces in the order detected, once in another order, with the same         *)
(* readings of the clock at the first, second, ... call of mark_attendance   *)

\* the last second of the grace period of "c1" on a Monday, and the next
OrderTimes == {[date |-> 0, tod |-> Strptime_HM(<<10, 15>>)],
               [date |-> 0, tod |-> Strptime_HM(<<10, 15>>) + 1]}

\* datetime.now() at each call of mark_attendance: the clock never goes back
ClockReadings(n) ==
    {times \in [1..n -> OrderTimes] :
        \A i \in 1..n, j \in 1..n : i <= j => times[i].tod <= times[j].tod}

\* the orders in which the for loop may meet the faces of a frame
OrdersOf(detected) ==
    {[i \in 1..Len(detected) |-> detected[p[i]]] : p \in Permutations(1..Len(detected))}

\* what a call of recognize_faces leaves: the (student_id, course_id, date)
\* triples of the attendance node, and the calls of trigger_led_blink
Outcome ==
    [records |-> {<<attendance[i].student_id, attendance[i].course_id, attendance[i].date>> :
                     i \in 1..Len(attendance)},
     signals |-> signals]

InitOrder ==
    /\ students = ConcStore.students
    /\ courses = ConcStore.courses
    /\ attendance = <<>>
    /\ call = NoCall
    /\ probe = NoProbe
    /\ inv = [p \in Procs |-> Idle(None)]
    /\ known_face_encodings = AppEncodings
    /\ known_face_names = AppNames
    /\ matched = NoMatch
    /\ serial_connection \in {"None", "open"}
    /\ Started
    /\ pc = "idle"
    /\ faces = <<>>
    /\ name = None
    /\ signals = 0
    /\ blink = None
    /\ annotated = <<>>
    /\ frame = <<>>

\* recognize_faces is called on a frame
OrderFirst ==
    /\ replay.phase = "off"
    /\ \E detected \in Frames :
          /\ EnterRecognize(detected)
          /\ \E order \in OrdersOf(detected), times \in ClockReadings(Len(detected)) :
                replay' = [replay EXCEPT !.phase = "first", !.order = order,
                                         !.times = times]
    /\ UNCHANGED <<startVars, ledgerVars, signals, loop, stop>>

\* the steps of recognize_faces; the k-th face is marked at the k-th reading
OrderFace ==
    /\ replay.phase \in {"first", "second"}
    /\ \/ MatchFace
       \/ MarkFaceAt(replay.times[Len(annotated) + 1])
       \/ LedBlink
       \/ DrawFace

\* the call returned; recognize_faces is called from the same store on the
\* same faces in the other order
OrderSecond ==
    /\ replay.phase = "first"
    /\ pc = "idle"
    /\ replay' = [replay EXCEPT !.phase = "second", !.first = Outcome]
    /\ attendance' = <<>>
    /\ signals' = 0
    /\ call' = NoCall
    /\ EnterRecognize(replay.order)
    /\ UNCHANGED <<startVars, students, courses, probe, inv, loop, stop>>

\* the second call returned
OrderDone ==
    /\ replay.phase = "second"
    /\ pc = "idle"
    /\ replay' = [replay EXCEPT !.phase = "done", !.second = Outcome]
    /\ UNCHANGED <<startVars, ledgerVars, galleryVars, matched, appVars, loop, stop>>

NextOrder == OrderFirst \/ OrderFace \/ OrderSecond \/ OrderDone

SpecOrder == InitOrder /\ [][NextOrder]_vars

\* C14 (as claimed): for every frame and every order of its faces, the set
\* of (student_id, course_id, date) records left by recognize_faces and the
\* number of actuator signals requested are the same.
C14_OrderIndependent ==
    replay.phase = "done" => replay.first = replay.second

----------------------------------------------------------------------------
(* Claims on the two tie-breaks *)

\* the positions, in the store's order, of the student's enrolled courses in
\* session at the timestamp
ActivePositions(student_id, timestamp) ==
    {j \in DOMAIN courses :
        /\ Enrolled(student_id, courses[j].course_id)
        /\ InSession(courses[j], timestamp)}

\* C15: when two of the student's enrolled courses are in session at the
\* timestamp (grace period included), find_current_course returns the one
\* that comes first in the store's order, and mark_attendance writes at most
\* one record, for that course; when that course is already marked for the
\* day it writes nothing, the other course gets no record.
C15_ScheduleTieBreak ==
    [][\A student_id \in StudentIds, timestamp \in Timestamps :
          LET active == ActivePositions(student_id, timestamp) IN
          Cardinality(active) >= 2 =>
             LET first == courses[CHOOSE j \in active : \A k \in active : j <= k].course_id
             IN  /\ FindCurrentCourse(student_id, timestamp) = first
                 /\ MarkAttendance(student_id, timestamp) =>
                       IF PresentRecords(attendance, student_id, first,
                                         timestamp.date) = {}
                       THEN /\ Len(attendance') = Len(attendance) + 1
                            /\ SubSeq(attendance', 1, Len(attendance)) = attendance
                            /\ attendance'[Len(attendance')].course_id = first
                            /\ attendance'[Len(attendance')].student_id = student_id
                       ELSE attendance' = attendance]_vars

\* C15 witness: both courses have the same Monday window and the student is
\* enrolled in both; the first course of the store was marked, a later call
\* of that day was answered "already marked", the second course has no record
C15_Witness ==
    /\ Len(courses) = 2
    /\ courses[1].schedule = courses[2].schedule
    /\ Len(attendance) = 1
    /\ attendance[1].course_id = courses[1].course_id
    /\ Enrolled(attendance[1].student_id, courses[1].course_id)
    /\ Enrolled(attendance[1].student_id, courses[2].course_id)
    /\ call.printed = "Attendance already marked"

\* the identities within tolerance of the query of the last match
Within == {i \in DOMAIN known_face_encodings : QueryDist(i) <= 5 * 5}

\* C16: when several gallery Identities are within tolerance of the query,
\* the match returns the label of the one that comes first in load order,
\* whichever of them is nearest.
C16_GalleryTieBreak ==
    (matched # NoMatch /\ Cardinality(Within) >= 2) =>
        \E i \in Within :
            /\ \A j \in Within : i <= j
            /\ matched.name = known_face_names[i]

\* C16 witness: the query is the second identity itself, the first identity
\* is at the very limit of the tolerance, and the match returned the first
C16_Witness ==
    /\ matched # NoMatch
    /\ Cardinality(Within) >= 2
    /\ QueryDist(2) = 0
    /\ QueryDist(1) = 5 * 5
    /\ matched.name = known_face_names[1]

----------------------------------------------------------------------------
(* Claims on the gallery load *)

\* a file that gives the gallery an Identity: an image extension in either
\* case, an image that decodes, at least one face in it
Loadable(file) ==
    /\ file.ext \in {".jpg", ".jpeg", ".png", ".JPG", ".JPEG", ".PNG"}
    /\ file.decodes
    /\ Len(file.encodings) >= 1

\* the files of the listing that load_known_faces has visited
Visited == SubSeq(dir.files, 1, Len(dir.files) - Len(todo))

\* C17: whatever the listing mixes (valid images, images that do not decode,
\* images with no face, other files), the gallery holds, in listing order,
\* one Identity for each image file visited that decodes and has a face: its
\* filename stem and the first encoding found in it; a bad file is skipped
\* and the files after it are loaded; when load_known_faces has returned,
\* every file of the listing has been visited.
C17_PerItemSkip ==
    (dir.ok /\ boot \in {"loading", "constructed", "running"}) =>
        LET loaded == SelectSeq(Visited, Loadable) IN
        /\ boot \in {"constructed", "running"} => todo = <<>>
        /\ Len(known_face_names) = Len(loaded)
        /\ Len(known_face_encodings) = Len(loaded)
        /\ \A i \in 1..Len(loaded) :
              /\ known_face_names[i] = loaded[i].stem
              /\ known_face_encodings[i] = loaded[i].encodings[1]

\* C17 witness: the first file of the listing does not decode, the second is
\* "s2.PNG" with two faces; the load has returned with the one Identity "s2"
C17_Witness ==
    /\ boot = "constructed"
    /\ dir.ok
    /\ Len(dir.files) = 2
    /\ ~dir.files[1].decodes
    /\ dir.files[2].ext = ".PNG"
    /\ known_face_names = <<"s2">>
    /\ known_face_encodings = <<dir.files[2].encodings[1]>>

----------------------------------------------------------------------------
(* enroll_student_to_course, on stores with unique ids and empty enrollment  *)
(* lists, and mark_attendance on the stores it builds                        *)

\* courses_ref.order_by_child('course_id').equal_to(course_id).get()
CourseQuery(course_id) ==
    SelectSeq(courses, LAMBDA c : c.course_id = course_id)

\* list(query.keys())[0]: the first entry of the node with the id
FirstKey(node, ids, id) ==
    CHOOSE i \in DOMAIN node : ids[i] = id /\ \A j \in 1..(i - 1) : ids[j] # id

\* mutant of AppendIfAbsent: the id is appended without the membership test
AppendAlways(list, id) == Append(list, id)

\* `if id not in list: list.append(id)`, the list then written back with set
AppendIfAbsent(list, id) == IF id \in Range(list) THEN list ELSE Append(list, id)

\* enroll_student_to_course(student_id, course_id)
EnrollStudentToCourse(student_id, course_id) ==
    IF StudentQuery(student_id) = <<>> \/ CourseQuery(course_id) = <<>>
    THEN UNCHANGED <<students, courses>>      \* "Student or course not found"
    ELSE LET student_key == FirstKey(students, [i \in DOMAIN students |->
                                                    students[i].student_id], student_id)
             course_key == FirstKey(courses, [j \in DOMAIN courses |->
                                                  courses[j].course_id], course_id)
         IN  /\ students' = [students EXCEPT ![student_key].enrolled_courses =
                                AppendIfAbsent(@, course_id)]
             /\ courses' = [courses EXCEPT ![course_key].enrolled_students =
                                AppendIfAbsent(@, student_id)]

\* the stores before any enrollment: no, one or two students, no, one or two
\* courses, the schedules of the concurrent runs
EnrollStores ==
    {StoreOf(ss, cs, [c \in CourseIds |-> ConcStore.courses[IF c = "c1" THEN 1 ELSE 2].schedule],
             {}) :
        ss \in {<<>>, <<"s1">>, <<"s1", "s2">>},
        cs \in {<<>>, <<"c1">>, <<"c1", "c2">>}}

\* the clock readings of the marks: those of the concurrent runs, and a
\* Tuesday, when no course meets
EnrollTimestamps ==
    ConcTimestamps \cup {[date |-> Tuesday, tod |-> Strptime_HM(<<10, 0>>)]}

InitEnroll ==
    /\ \E st \in EnrollStores : students = st.students /\ courses = st.courses
    /\ attendance = <<>>
    /\ call = NoCall
    /\ probe = NoProbe
    /\ inv = [p \in Procs |-> Idle(None)]
    /\ NoGallery

Enroll ==
    /\ \E student_id \in StudentIds, course_id \in CourseIds :
          EnrollStudentToCourse(student_id, course_id)
    /\ UNCHANGED <<attendance, call, probe, inv, galleryVars, matched, appVars, startVars,
                   runVars>>

MarkEnrolled ==
    /\ \E student_id \in StudentIds, timestamp \in EnrollTimestamps :
          MarkAttendance(student_id, timestamp)
    /\ UNCHANGED <<students, courses, probe, inv, galleryVars, matched, appVars, startVars,
                   runVars>>

NextEnroll == Enroll \/ MarkEnrolled

SpecEnroll == InitEnroll /\ [][NextEnroll]_vars

\* the record is justified by the store: its course is one of the student's
\* enrolled courses and is in session at the record's timestamp
Justified(record) ==
    \E j \in DOMAIN courses :
        /\ courses[j].course_id = record.course_id
        /\ Enrolled(record.student_id, record.course_id)
        /\ InSession(courses[j], [date |-> record.timestamp[1],
                                  tod |-> record.timestamp[2]])

\* C18: every record of the attendance node has status 'present' and the
\* calendar date of its timestamp as date, and when it was written its course
\* was one of the student's enrolled courses, with a window (start to end plus
\* 15 minutes) on the timestamp's weekday that contains the timestamp;
\* enrollments and schedules are never taken back, so it stays so.
C18_RecordsJustified ==
    /\ [](\A i \in DOMAIN attendance :
             /\ attendance[i].status = "present"
             /\ attendance[i].date = attendance[i].timestamp[1]
             /\ Justified(attendance[i]))
    /\ [][\A i \in (Len(attendance) + 1)..Len(attendance') :
             Justified(attendance'[i])]_vars

\* C18 witness: "s2" was enrolled in the second course only and marked for it
\* in the last second of its grace period; "s1", not enrolled, was refused
C18_Witness ==
    /\ Len(attendance) = 1
    /\ attendance[1].student_id = "s2"
    /\ attendance[1].course_id = "c2"
    /\ attendance[1].timestamp = <<0, Strptime_HM(<<11, 15>>)>>
    /\ ~Enrolled("s1", "c2")
    /\ \E i \in DOMAIN students : students[i].student_id = "s1"
    /\ call.printed = "No active course found"

\* a list has no id twice
NoDuplicate(list) == \A i, j \in DOMAIN list : list[i] = list[j] => i = j

\* C19: from students and courses with unique ids and empty enrollment lists,
\* after any sequence of enroll_student_to_course calls a course is in a
\* student's enrolled_courses exactly when the student is in the course's
\* enrolled_students, and no list has a duplicate; a call for a pair already
\* enrolled, or naming a missing student or course, changes nothing; any other
\* call adds the course to the student and the student to the course.
C19_EnrollConsistent ==
    /\ [](\A i \in DOMAIN students, j \in DOMAIN courses :
             /\ (courses[j].course_id \in Range(students[i].enrolled_courses))
                  <=> (students[i].student_id \in Range(courses[j].enrolled_students))
             /\ NoDuplicate(students[i].enrolled_courses)
             /\ NoDuplicate(courses[j].enrolled_students))
    /\ [][\A student_id \in StudentIds, course_id \in CourseIds :
             EnrollStudentToCourse(student_id, course_id) =>
                IF \/ \A i \in DOMAIN students : students[i].student_id # student_id
                   \/ \A j \in DOMAIN courses : courses[j].course_id # course_id
                   \/ Enrolled(student_id, course_id)
                THEN students' = students /\ courses' = courses
                ELSE /\ Enrolled(student_id, course_id)'
                     /\ \A i \in DOMAIN students :
                           Len(students'[i].enrolled_courses) =
                              Len(students[i].enrolled_courses) +
                              (IF students[i].student_id = student_id THEN 1 ELSE 0)
                     /\ \A j \in DOMAIN courses :
                           Len(courses'[j].enrolled_students) =
                              Len(courses[j].enrolled_students) +
                              (IF courses[j].course_id = course_id THEN 1 ELSE 0)]_vars

\* C19 witness: four enrollments were made, the second student first in "c1"
\* and the first student first in "c2"
C19_Witness ==
    /\ Len(students) = 2
    /\ Len(courses) = 2
    /\ students[1].enrolled_courses = <<"c2", "c1">>
    /\ students[2].enrolled_courses = <<"c1", "c2">>
    /\ courses[1].enrolled_students = <<"s2", "s1">>
    /\ courses[2].enrolled_students = <<"s1", "s2">>

====
